---- MODULE Spec2Model ----
(***************************************************************************)
(* Model of the scraper-scuffers pipeline:                                 *)
(*   - SupabaseDB._parse_price           (src/scraper/database.py)         *)
(*   - SupabaseDB._format_product_for_db (src/scraper/database.py)         *)
(*   - SupabaseDB.upsert_products        (src/scraper/database.py)         *)
(*   - the products table behind the REST endpoint, as far as the          *)
(*     parameters of the request fix its behaviour                         *)
(*   - BrowserScraper.scrape_all_products (src/scraper/browser_scraper.py) *)
(*   - BrowserScraper._extract_products_from_page and                      *)
(*     HTMLScraper.scrape_category_page, with their per-element extractors *)
(*   - _determine_gender of both scrapers                                  *)
(*   - FashionScraper.scrape_site_async  (src/scraper/scraper.py)          *)
(* Each part has its own specification; the variables of the other parts   *)
(* rest at their idle values.  Texts whose characters matter (prices,      *)
(* URLs, gender signals) are sequences of one-character strings; texts     *)
(* that are only compared or concatenated are strings.                     *)
(***************************************************************************)
EXTENDS Integers, Sequences, FiniteSets, TLC

VARIABLES
    \* ---- _parse_price ----
    price_str,          \* the argument of _parse_price
    price_pc,           \* "call" before the call, "returned" after it
    price_result,       \* the value returned
    \* ---- upsert_products ----
    products,           \* the argument of upsert_products
    up_pc,              \* "call", "chunks", "returned"
    normalized_products,\* the deduplicated, normalized list that is chunked
    chunk_i,            \* the loop variable i of the chunk loop
    success_count,      \* records of the accepted chunks
    posted,             \* the requests sent to the sink, in order
    outcomes,           \* the sink's answer to each request, in order
    up_result,          \* the value returned
    \* ---- the products table behind the REST endpoint ----
    stored,             \* the rows of the table
    stored_at_call,     \* the rows when the current call was made
    calls,              \* the calls of upsert_products made so far
    \* ---- the listing extractors ----
    ex_kind,            \* "browser"; or what the selectors of the HTML
                        \* scraper match: "listing" (product containers)
                        \* or "links" (product links only)
    ex_pc,              \* "call", "returned", "raised"
    entry_url,          \* the configured category URL that is requested
    document_url,       \* the URL of the document loaded (page.url)
    page_fails,         \* the page cannot be queried / fetched
    containers,         \* the elements matched, in document order
    ex_products,        \* the list returned
    ex_from,            \* for each record returned, the index of its element
    \* ---- _determine_gender ----
    gd_kind,            \* "browser" or "html": whose _determine_gender
    gd_pc,              \* "call", "returned"
    gd_signals,         \* the texts the function reads
    gd_result,          \* "women", "men" or "None"
    \* ---- scrape_all_products ----
    max_products,       \* the argument max_products
    pg_pc,              \* "start", "seek", "extract", "returned"
    page_products,      \* len(products)
    previous_count,
    no_change_count,
    load_attempts,
    successful_clicks,
    button_clicked,
    exit_reason,        \* which exit ended the loop
    last_growth,        \* history: attempt of the last strict growth
    ever_found,         \* history: an affordance was found in some attempt
    att,                \* history: what happened in the current attempt
    \* ---- scrape_site_async ----
    st_config,          \* mode, sync, limit, number of categories
    st_pc,              \* "category", "attempt", "embed", "fallback",
                        \* "finish", "returned", "interrupted"
    st_cat,             \* the category of the loop of line 89, from 1
    st_listings,        \* len(listings) after line 109
    st_idx,             \* the listing of the loop of line 112, from 1
    st_attempt,         \* the loop variable attempt of line 120
    st_fetches,         \* history: session.get calls for this product_url
    st_downloads,       \* history: requests.get calls for the image of
                        \* the last record
    st_embed,           \* history: how the embedding call for the last
                        \* record ended ("none" until it is made)
    st_products,        \* products
    st_handed,          \* the arguments of the calls of upsert_products
    st_accepted,        \* success_count of that call
    st_result           \* the value returned

price_vars == <<price_str, price_pc, price_result>>
up_vars == <<products, up_pc, normalized_products, chunk_i, success_count,
             posted, outcomes, up_result>>
pg_vars == <<max_products, pg_pc, page_products, previous_count,
             no_change_count, load_attempts, successful_clicks,
             button_clicked, exit_reason, last_growth, ever_found,
             att>>
sink_vars == <<stored, stored_at_call, calls>>
ex_vars == <<ex_kind, ex_pc, entry_url, document_url, page_fails, containers,
             ex_products, ex_from>>
gd_vars == <<gd_kind, gd_pc, gd_signals, gd_result>>
site_vars == <<st_config, st_pc, st_cat, st_listings, st_idx, st_attempt,
               st_fetches, st_downloads, st_embed, st_products, st_handed,
               st_accepted, st_result>>
vars == <<price_vars, up_vars, sink_vars, pg_vars, ex_vars, gd_vars,
          site_vars>>

(***************************************************************************)
(* Python values                                                           *)
(***************************************************************************)
None == [kind |-> "None"]
Str(chars) == [kind |-> "str", chars |-> chars]
\* a float k / 10^e is kept in lowest decimal form, so that equality of
\* records is equality of numbers
Float(num, den) == [kind |-> "float", num |-> num, den |-> den]
\* float('inf'), what float() gives for a decimal beyond the double range
Inf == [kind |-> "inf"]

\* str.lower()
UpperCase ==
    <<"A", "B", "C", "D", "E", "F", "G", "H", "I", "J", "K", "L", "M",
      "N", "O", "P", "Q", "R", "S", "T", "U", "V", "W", "X", "Y", "Z">>
LowerCase ==
    <<"a", "b", "c", "d", "e", "f", "g", "h", "i", "j", "k", "l", "m",
      "n", "o", "p", "q", "r", "s", "t", "u", "v", "w", "x", "y", "z">>
LowerChar(c) ==
    IF \E i \in 1..26 : UpperCase[i] = c
    THEN LowerCase[CHOOSE i \in 1..26 : UpperCase[i] = c] ELSE c
Lower(s) == [i \in 1..Len(s) |-> LowerChar(s[i])]

RECURSIVE Normalize(_, _)
Normalize(num, den) ==
    IF den > 1 /\ num % 10 = 0 THEN Normalize(num \div 10, den \div 10)
    ELSE Float(num, den)

(***************************************************************************)
(* _parse_price                                                            *)
(***************************************************************************)
Digits == {"0", "1", "2", "3", "4", "5", "6", "7", "8", "9"}
Whitespace == {" "}

DigitVal(c) ==
    CASE c = "0" -> 0 [] c = "1" -> 1 [] c = "2" -> 2 [] c = "3" -> 3
      [] c = "4" -> 4 [] c = "5" -> 5 [] c = "6" -> 6 [] c = "7" -> 7
      [] c = "8" -> 8 [] c = "9" -> 9

Contains(s, c) == \E i \in 1..Len(s) : s[i] = c

\* str.strip(): drop leading and trailing whitespace
RECURSIVE LStrip(_)
LStrip(s) == IF s # <<>> /\ Head(s) \in Whitespace THEN LStrip(Tail(s)) ELSE s
RECURSIVE RStrip(_)
RStrip(s) ==
    IF s # <<>> /\ s[Len(s)] \in Whitespace
    THEN RStrip(SubSeq(s, 1, Len(s) - 1)) ELSE s
Strip(s) == RStrip(LStrip(s))

\* str.replace(old, new) for a one-character old; new is a sequence
RECURSIVE Replace(_, _, _)
Replace(s, old, new) ==
    IF s = <<>> THEN <<>>
    ELSE (IF Head(s) = old THEN new ELSE <<Head(s)>>)
         \o Replace(Tail(s), old, new)

\* lines 221-226: the decimal comma and the thousands comma
RewriteCommas(s) ==
    IF Contains(s, ",") /\ ~Contains(s, ".") THEN Replace(s, ",", <<".">>)
    ELSE IF Contains(s, ",") /\ Contains(s, ".") THEN Replace(s, ",", <<>>)
    ELSE s

\* re.search(r'[\d.]+', s): the leftmost, longest run of digits and points;
\* <<>> when there is none
IsTokenChar(c) == c \in Digits \/ c = "."
TakeToken(s) ==
    LET n == CHOOSE k \in 0..Len(s) :
                 /\ \A i \in 1..k : IsTokenChar(s[i])
                 /\ k = Len(s) \/ ~IsTokenChar(s[k + 1])
    IN SubSeq(s, 1, n)
SearchToken(s) ==
    IF \E i \in 1..Len(s) : IsTokenChar(s[i])
    THEN LET start == CHOOSE i \in 1..Len(s) :
                          /\ IsTokenChar(s[i])
                          /\ \A j \in 1..(i - 1) : ~IsTokenChar(s[j])
         IN TakeToken(SubSeq(s, start, Len(s)))
    ELSE <<>>

\* float(token) for a token of digits and points: ValueError (None here,
\* through the except clause of lines 237-239) unless the token has at
\* least one digit and at most one point; inf, and no exception, when the
\* integer part has more significant digits than any double
\* (sys.float_info.max is 1.79e308: 309 digits)
float_max_digits == 309
RECURSIVE DigitsValue(_)
DigitsValue(s) ==
    IF s = <<>> THEN 0
    ELSE 10 * DigitsValue(SubSeq(s, 1, Len(s) - 1)) + DigitVal(s[Len(s)])
RECURSIVE Pow10(_)
Pow10(n) == IF n = 0 THEN 1 ELSE 10 * Pow10(n - 1)
CountOf(s, c) == Cardinality({i \in 1..Len(s) : s[i] = c})
PointAt(s) == CHOOSE i \in 1..Len(s) : s[i] = "."
IntegerPart(tok) ==
    IF CountOf(tok, ".") = 0 THEN tok ELSE SubSeq(tok, 1, PointAt(tok) - 1)
SignificantDigits(int) ==
    LET zeros == CHOOSE k \in 0..Len(int) :
                     /\ \A i \in 1..k : int[i] = "0"
                     /\ k = Len(int) \/ int[k + 1] # "0"
    IN Len(int) - zeros
ToFloat(tok) ==
    IF CountOf(tok, ".") > 1 \/ ~(\E i \in 1..Len(tok) : tok[i] \in Digits)
    THEN None
    ELSE IF SignificantDigits(IntegerPart(tok)) > float_max_digits THEN Inf
    ELSE IF CountOf(tok, ".") = 0 THEN Float(DigitsValue(tok), 1)
    ELSE LET p == PointAt(tok)
             int == SubSeq(tok, 1, p - 1)
             frac == SubSeq(tok, p + 1, Len(tok))
         IN Normalize(DigitsValue(int \o frac), Pow10(Len(frac)))

_parse_price(p) ==
    IF p = None \/ p = Str(<<>>) THEN None
    ELSE LET s == RewriteCommas(Strip(p.chars))
             tok == SearchToken(s)
         IN IF tok # <<>> THEN ToFloat(tok) ELSE None


(***************************************************************************)
(* _format_product_for_db                                                  *)
(* A product is a dict; a missing or None text field is "".                *)
(***************************************************************************)
Product(source, product_url, image_url, title, price, embedding) ==
    [source |-> source, product_url |-> product_url, image_url |-> image_url,
     title |-> title, price |-> price, embedding |-> embedding]

\* hashlib.sha256(...).hexdigest(), taken as collision-free
sha256(s) == [kind |-> "sha256", of |-> s]

\* line 154: f"{source}:{product_url}"
id_string(source, product_url) == source \o ":" \o product_url

\* line 148 without the test of title
MissingRequired_NoTitle(product) ==
    \/ product.source = ""
    \/ product.product_url = ""
    \/ product.image_url = ""

\* line 148: the required-field gate
MissingRequired(product) ==
    \/ product.source = ""
    \/ product.product_url = ""
    \/ product.image_url = ""
    \/ product.title = ""

\* lines 152-155 with the title, not the product_url, in the hashed string
_format_product_for_db_IdFromTitle(product) ==
    IF MissingRequired(product) THEN None
    ELSE LET formatted ==
                 [id |-> sha256(id_string(product.source, product.title)),
                  source |-> product.source,
                  product_url |-> product.product_url,
                  image_url |-> product.image_url,
                  title |-> product.title,
                  price |-> _parse_price(product.price)]
         IN IF product.embedding # None
            THEN ("embedding" :> product.embedding) @@ formatted
            ELSE formatted

\* lines 141-201 (the fields that no claim reads are left out)
_format_product_for_db(product) ==
    IF MissingRequired(product) THEN None
    ELSE LET formatted ==
                 [id |-> sha256(id_string(product.source, product.product_url)),
                  source |-> product.source,
                  product_url |-> product.product_url,
                  image_url |-> product.image_url,
                  title |-> product.title,
                  price |-> _parse_price(product.price)]
         IN IF product.embedding # None
            THEN ("embedding" :> product.embedding) @@ formatted
            ELSE formatted

(***************************************************************************)
(* upsert_products                                                         *)
(***************************************************************************)
chunk_size == 100

\* line 63: the key of the first deduplication pass
dedup_key(formatted) == formatted.source \o ":" \o formatted.product_url

\* lines 64-68: what the first pass does with a formatted product whose key
\* is, or is not, among the keys seen so far
KeepOnFirstPass(key, seen_ids) == key \notin seen_ids

\* set.add(x); the set is enumerated at once
SetAdd(S, x) == {k \in S \cup {x} : TRUE}

\* lines 59-68, the body of the loop: format the product, keep it when it
\* is valid and its dedup_key was not seen before
FirstPassStep(st, product) ==
    LET f == _format_product_for_db(product)
    IN IF f = None THEN st
       ELSE IF KeepOnFirstPass(dedup_key(f), st.seen_ids)
       THEN [seen_ids |-> SetAdd(st.seen_ids, dedup_key(f)),
             formatted_products |-> Append(st.formatted_products, f)]
       ELSE st

\* lines 56-68: the loop over prods[lo..hi], in order (the range is halved,
\* and the left half evaluated before the right one is entered, only to keep
\* the evaluation shallow)
RECURSIVE FirstPassRange(_, _, _, _)
FirstPassRange(prods, lo, hi, st) ==
    IF lo > hi THEN st
    ELSE IF lo = hi THEN FirstPassStep(st, prods[lo])
    ELSE LET mid == (lo + hi) \div 2
             left == FirstPassRange(prods, lo, mid, st)
         IN IF DOMAIN left = DOMAIN st
            THEN FirstPassRange(prods, mid + 1, hi, left) ELSE left

FirstPass(prods) ==
    FirstPassRange(prods, 1, Len(prods),
                   [seen_ids |-> {}, formatted_products |-> <<>>]).formatted_products

\* seen[key] = p on an insertion-ordered dict, kept as a sequence of values
DictPut(seen, p) ==
    IF \E i \in 1..Len(seen) : seen[i].id = p.id
    THEN [i \in 1..Len(seen) |-> IF seen[i].id = p.id THEN p ELSE seen[i]]
    ELSE Append(seen, p)

\* lines 77-83: the second pass, keyed by id, the last occurrence staying
RECURSIVE SecondPassRange(_, _, _, _)
SecondPassRange(formatted_products, lo, hi, seen) ==
    IF lo > hi THEN seen
    ELSE IF lo = hi THEN DictPut(seen, formatted_products[lo])
    ELSE LET mid == (lo + hi) \div 2
             left == SecondPassRange(formatted_products, lo, mid, seen)
         IN IF Len(left) >= Len(seen)
            THEN SecondPassRange(formatted_products, mid + 1, hi, left)
            ELSE left

SecondPass(formatted_products) ==
    SecondPassRange(formatted_products, 1, Len(formatted_products), <<>>)

\* lines 85-94: every product gets every key, the missing ones as None
NormalizeKeys(products_to_upsert) ==
    LET all_keys == UNION {DOMAIN products_to_upsert[i] :
                           i \in 1..Len(products_to_upsert)}
    IN [i \in 1..Len(products_to_upsert) |->
          [key \in all_keys |->
             IF key \in DOMAIN products_to_upsert[i]
             THEN products_to_upsert[i][key] ELSE None]]

Min(a, b) == IF a < b THEN a ELSE b

\* line 107: normalized_products[i:i + chunk_size], i counted from 0
Chunk(list, i) == SubSeq(list, i + 1, Min(i + chunk_size, Len(list)))

\* lines 116-122: a request is accepted when it returns 200, 201 or 204
\* (the answers of the sink: a status code, or "raises" for an exception)
SinkOutcomes == {"200", "201", "204", "500", "raises"}
Accepted(outcome) == outcome \in {"200", "201", "204"}

\* mutant: a failed chunk ends the loop
NextChunkIndex_StopOnFailure(i, outcome, n) ==
    IF Accepted(outcome) THEN i + chunk_size ELSE n

\* lines 118, 122: continue goes on with the next i of the range
NextChunkIndex(i, outcome, n) == i + chunk_size

\* mutant: success whatever was accepted
UpsertResult_AnyCount(count) == count >= 0

\* line 125
UpsertResult(count) == count > 0

\* line 98: the conflict target of the upsert
on_conflict == {"source", "product_url"}

\* line 100 with resolution=ignore-duplicates
Prefer_IgnoreDuplicates == "ignore-duplicates"

\* line 100: the resolution of a conflict
Prefer == "merge-duplicates"

\* the columns of the products table that the model keeps; "id" is its
\* primary key (line 160)
Columns ==
    {"id", "source", "product_url", "image_url", "title", "price", "embedding"}

\* the row and the record agree on the conflict target
Conflicts(row, record) == \A c \in on_conflict : row[c] = record[c]

\* what the table makes of a request with params and headers of lines
\* 98-101 when it accepts it: a record that conflicts with a row is merged
\* into it (the columns of the request are overwritten, the others kept)
\* or ignored, as Prefer says; a record that conflicts with no row is
\* inserted, the columns it lacks being null
SinkUpsert(rows, chunk) ==
    LET recs == {chunk[i] : i \in 1..Len(chunk)}
        Merge(row, record) ==
            IF Prefer = "merge-duplicates"
            THEN [c \in Columns |->
                     IF c \in DOMAIN record THEN record[c] ELSE row[c]]
            ELSE row
        Insert(record) ==
            [c \in Columns |-> IF c \in DOMAIN record THEN record[c] ELSE None]
    IN {row \in rows : \A record \in recs : ~Conflicts(row, record)}
       \cup {Merge(row, record) :
                <<row, record>> \in {pr \in rows \X recs :
                                       Conflicts(pr[1], pr[2])}}
       \cup {Insert(record) :
                record \in {r \in recs :
                               \A row \in rows : ~Conflicts(row, r)}}

\* a record to insert has the id of a row: the table refuses the request
PrimaryKeyViolation(rows, chunk) ==
    \E i \in 1..Len(chunk) : \E row \in rows :
        /\ row.id = chunk[i].id
        /\ ~Conflicts(row, chunk[i])

\* the rows after a request, by the answer the client sees: an accepted
\* request was applied, a refused one was not, and a request whose answer
\* was lost (an exception of session.post, line 120) may be either
RowsAfter(rows, chunk, outcome) ==
    IF Accepted(outcome) THEN {SinkUpsert(rows, chunk)}
    ELSE IF outcome = "raises" /\ ~PrimaryKeyViolation(rows, chunk)
    THEN {rows, SinkUpsert(rows, chunk)}
    ELSE {rows}

UpsertCall ==
    /\ up_pc = "call"
    /\ IF products = <<>>
       THEN /\ up_pc' = "returned"
            /\ up_result' = TRUE
            /\ UNCHANGED normalized_products
       ELSE LET formatted_products == FirstPass(products)
            IN IF formatted_products = <<>>
               THEN /\ up_pc' = "returned"
                    /\ up_result' = FALSE
                    /\ UNCHANGED normalized_products
               ELSE /\ normalized_products' =
                          NormalizeKeys(SecondPass(formatted_products))
                    /\ up_pc' = "chunks"
                    /\ UNCHANGED up_result
    /\ UNCHANGED <<products, chunk_i, success_count, posted, outcomes>>
    /\ UNCHANGED <<price_vars, sink_vars, pg_vars, ex_vars, gd_vars,
                 site_vars>>

PostChunk ==
    /\ up_pc = "chunks"
    /\ chunk_i < Len(normalized_products)
    /\ \E outcome \in SinkOutcomes :
         LET chunk == Chunk(normalized_products, chunk_i)
         IN /\ Accepted(outcome) => ~PrimaryKeyViolation(stored, chunk)
            /\ stored' \in RowsAfter(stored, chunk, outcome)
            /\ posted' = Append(posted, chunk)
            /\ outcomes' = Append(outcomes, outcome)
            /\ success_count' = IF Accepted(outcome)
                                THEN success_count + Len(chunk)
                                ELSE success_count
            /\ chunk_i' = NextChunkIndex(chunk_i, outcome,
                                         Len(normalized_products))
    /\ UNCHANGED <<products, up_pc, normalized_products, up_result>>
    /\ UNCHANGED <<stored_at_call, calls>>
    /\ UNCHANGED <<price_vars, pg_vars, ex_vars, gd_vars,
                 site_vars>>

UpsertReturn ==
    /\ up_pc = "chunks"
    /\ chunk_i >= Len(normalized_products)
    /\ up_pc' = "returned"
    /\ up_result' = UpsertResult(success_count)
    /\ UNCHANGED <<products, normalized_products, chunk_i, success_count,
                   posted, outcomes>>
    /\ UNCHANGED <<price_vars, sink_vars, pg_vars, ex_vars, gd_vars,
                 site_vars>>

(***************************************************************************)
(* scrape_all_products: the pagination loop                                *)
(***************************************************************************)
max_no_change == 15
max_load_attempts == 100
no_button_attempts == 15
default_max_products == 1000

\* mutant: the attempts are not bounded
LoopCondition_NoAttemptBound(count, attempts) == count < max_products

\* line 66: the condition of the while loop
LoopCondition(count, attempts) ==
    count < max_products /\ attempts < max_load_attempts

\* What one pass of the body of lines 126-205 meets, for one button of one
\* selector:
\*   match    - text_content() was read and holds 'load more' or 'show more'
\*   raises   - is_visible() or get_attribute() raised (caught at line 204)
\*   disabled - the disabled attribute is present
\*   next_url - the data-next-url attribute ("" when empty or absent)
\*   click    - the first click method that succeeded, "fail" when none did
\*   settle   - wait_for_load_state: "idle", or "timeout" when it raised
\*   visible  - what is_visible() returned at line 140 (the direct click of
\*              line 165 waits for the element to be visible and raises on
\*              one that stays hidden; el.click() of line 172 and
\*              dispatch_event of line 179 do not look at it)
Button(match, raises, disabled, next_url, click, settle, visible) ==
    [match |-> match, raises |-> raises, disabled |-> disabled,
     next_url |-> next_url, click |-> click, settle |-> settle,
     visible |-> visible]

ButtonOutcomes ==
    { Button(FALSE, FALSE, FALSE, "", "fail", "idle", TRUE),
      Button(TRUE, TRUE, FALSE, "", "fail", "idle", TRUE),
      Button(TRUE, FALSE, TRUE, "/next", "fail", "idle", TRUE),
      Button(TRUE, FALSE, FALSE, "", "direct", "idle", TRUE),
      Button(TRUE, FALSE, FALSE, "/next", "direct", "idle", TRUE),
      Button(TRUE, FALSE, FALSE, "/next", "js", "idle", TRUE),
      Button(TRUE, FALSE, FALSE, "/next", "dispatch", "idle", TRUE),
      Button(TRUE, FALSE, FALSE, "/next", "fail", "idle", TRUE),
      Button(TRUE, FALSE, FALSE, "/next", "direct", "timeout", TRUE),
      Button(TRUE, FALSE, FALSE, "/next", "js", "idle", FALSE) }

\* what an attempt has done so far
NewAttempt ==
    [found |-> FALSE, signal |-> FALSE, triggered |-> FALSE, clicks |-> 0,
     timeout |-> FALSE, retriggered |-> FALSE, extracted |-> FALSE,
     hidden |-> FALSE]

\* lines 202-203: after the settle wait returned, the click counts as the
\* attempt's click and the button loop is left
ClickedAfterSettle(settle) == settle = "idle"

\* lines 148-151: what a disabled button does to button_clicked
ClickedWhenDisabled == TRUE

\* lines 126-205 for the buttons met in this attempt, in order; st holds
\* button_clicked, the clicks counted and the attempt's history
RECURSIVE ProcessButtons(_, _)
ProcessButtons(buttons, st) ==
    IF buttons = <<>> \/ st.button_clicked THEN st
    ELSE LET b == Head(buttons)
             rest == Tail(buttons)
         IN IF ~b.match \/ b.raises THEN ProcessButtons(rest, st)
            ELSE IF b.disabled
            THEN [st EXCEPT !.button_clicked = ClickedWhenDisabled,
                            !.att.found = TRUE, !.att.signal = TRUE]
            ELSE LET st1 == [st EXCEPT
                               !.att.found = TRUE,
                               !.att.signal = @ \/ b.next_url = "",
                               !.att.triggered = TRUE,
                               !.att.retriggered = @ \/ st.att.timeout]
                 IN IF b.click = "fail" THEN ProcessButtons(rest, st1)
                    ELSE LET st2 == [st1 EXCEPT !.clicks = @ + 1,
                                                !.att.clicks = @ + 1,
                                                !.att.hidden =
                                                    @ \/ ~b.visible]
                         IN IF ClickedAfterSettle(b.settle)
                            THEN [st2 EXCEPT !.button_clicked = TRUE]
                            ELSE ProcessButtons(rest,
                                     [st2 EXCEPT !.att.timeout = TRUE])

\* mutant: the attempt that reaches no_button_attempts does not give up yet
GivesUp_OffByOne(clicked, attempts) ==
    ~clicked /\ attempts > no_button_attempts

\* lines 211-217: the attempts give up when no button was clicked
GivesUp(clicked, attempts) == ~clicked /\ attempts >= no_button_attempts

\* mutant: a pass that extracts as many products as before counts as growth
Grew_OrEqual(current, previous) == current >= previous

\* line 224
Grew(current, previous) == current > previous

\* line 238
Stalled(count) == count >= max_no_change

\* line 243
ReachedLimit(count) == count >= max_products

(***************************************************************************)
(* The listing extractors: BrowserScraper._extract_products_from_page,     *)
(* HTMLScraper.scrape_category_page and the three per-element extractors.  *)
(* URLs are sequences of one-character strings; a missing attribute is     *)
(* None.                                                                   *)
(***************************************************************************)
\* str.startswith(prefix)
StartsWith(s, prefix) ==
    Len(s) >= Len(prefix) /\ SubSeq(s, 1, Len(prefix)) = prefix

\* the first index at which sub occurs in s, 0 when it does not (str.find,
\* counted from 1)
Find(s, sub) ==
    LET at == {i \in 1..(Len(s) - Len(sub) + 1) :
                 SubSeq(s, i, i + Len(sub) - 1) = sub}
    IN IF at = {} THEN 0 ELSE CHOOSE i \in at : \A j \in at : i <= j

\* sub in s
InStr(sub, s) == Find(s, sub) # 0

\* s.split(sep)[0]
SplitFirst(s, sep) ==
    IF InStr(sep, s) THEN SubSeq(s, 1, Find(s, sep) - 1) ELSE s

\* urlparse(url).scheme and urlparse(url).netloc of a url "scheme://..."
\* ("" when the url has no scheme, or no "//" after it)
UrlScheme(url) ==
    IF InStr(<<":">>, url) /\ ~InStr(<<"/">>, SplitFirst(url, <<":">>))
    THEN SplitFirst(url, <<":">>) ELSE <<>>
UrlNetloc(url) ==
    LET rest == IF UrlScheme(url) = <<>> THEN url
                ELSE SubSeq(url, Len(UrlScheme(url)) + 2, Len(url))
    IN IF StartsWith(rest, <<"/", "/">>)
       THEN SplitFirst(SubSeq(rest, 3, Len(rest)), <<"/">>)
       ELSE <<>>

\* f"{base_parsed.scheme}://{base_parsed.netloc}{url}"
OriginPlus(base_url, url) ==
    UrlScheme(base_url) \o <<":", "/", "/">> \o UrlNetloc(base_url) \o url

\* urljoin(base, url) for the urls it is called with, which start with "/":
\* a network-path reference "//host/path" takes the scheme of the base, an
\* absolute-path reference "/path" its scheme and host
urljoin(base, url) ==
    IF StartsWith(url, <<"/", "/">>) THEN UrlScheme(base) \o <<":">> \o url
    ELSE OriginPlus(base, url)

\* browser_scraper.py lines 284-288: the product_url of a link element
\* whose href is None or a string
BrowserProductUrl(href, page_url) ==
    IF href # None /\ href.chars # <<>> /\ StartsWith(href.chars, <<"/">>)
    THEN Str(urljoin(SplitFirst(page_url,
                                <<"/", "c", "o", "l", "l", "e", "c", "t",
                                  "i", "o", "n", "s">>), href.chars))
    ELSE href

\* browser_scraper.py lines 312-319: the image_url of an img element (None
\* when the key is not set)
BrowserImageUrl(src, page_url) ==
    IF src = None \/ src = Str(<<>>) THEN None
    ELSE IF StartsWith(src.chars, <<"/", "/">>)
    THEN Str(<<"h", "t", "t", "p", "s", ":">> \o src.chars)
    ELSE IF StartsWith(src.chars, <<"/">>)
    THEN Str(urljoin(SplitFirst(page_url,
                                <<"/", "c", "o", "l", "l", "e", "c", "t",
                                  "i", "o", "n", "s">>), src.chars))
    ELSE src

\* html_scraper.py lines 325-329 and 380-386: the product_url of a link
\* element whose href is a string that is not empty
HtmlProductUrl(href, base_url) ==
    IF StartsWith(href.chars, <<"/">>)
    THEN Str(OriginPlus(base_url, href.chars)) ELSE href

\* html_scraper.py lines 349-356 and 418-425
HtmlImageUrl(src, base_url) ==
    IF src = None \/ src = Str(<<>>) THEN None
    ELSE IF StartsWith(src.chars, <<"/", "/">>)
    THEN Str(<<"h", "t", "t", "p", "s", ":">> \o src.chars)
    ELSE IF StartsWith(src.chars, <<"/">>)
    THEN Str(OriginPlus(base_url, src.chars))
    ELSE src

\* A container is [link, href, src, fails]: whether it has an element for
\* the product_url selector, the href of that element, the src of its img,
\* and whether a call made on it raises.
Container(link, href, src, fails) ==
    [link |-> link, href |-> href, src |-> src, fails |-> fails]

\* browser_scraper.py lines 276-330; None for "no record"
_extract_product_from_container(container, page_url) ==
    IF container.fails THEN None
    ELSE IF ~container.link THEN None
    ELSE [product_url |-> BrowserProductUrl(container.href, page_url),
          image_url |-> BrowserImageUrl(container.src, page_url)]

\* html_scraper.py lines 307-364
_extract_product_from_listing(container, base_url) ==
    IF container.fails THEN None
    ELSE IF ~container.link THEN None
    ELSE IF container.href = None \/ container.href = Str(<<>>) THEN None
    ELSE [product_url |-> HtmlProductUrl(container.href, base_url),
          image_url |-> HtmlImageUrl(container.src, base_url)]

\* html_scraper.py lines 366-430; the element is the link itself
_extract_product_from_link(link_elem, base_url) ==
    IF link_elem.fails THEN None
    ELSE IF link_elem.href = None \/ link_elem.href = Str(<<>>) THEN None
    ELSE [product_url |-> HtmlProductUrl(link_elem.href, base_url),
          image_url |-> HtmlImageUrl(link_elem.src, base_url)]

\* line 268 and html_scraper.py lines 52, 77 without the test
KeepRecord_Always(product_data) == TRUE

\* browser_scraper.py line 268, html_scraper.py lines 52 and 77:
\* if product_data
KeepRecord(product_data) == product_data # None

\* the call in the loop body: browser_scraper.py line 267 (with the URL of
\* the page), html_scraper.py lines 51 and 76 (with the URL requested)
ExtractOne(kind, elem, base_url) ==
    CASE kind = "browser" -> _extract_product_from_container(elem, base_url)
      [] kind = "listing" -> _extract_product_from_listing(elem, base_url)
      [] kind = "links" -> _extract_product_from_link(elem, base_url)

\* the loops of browser_scraper.py lines 266-272 and html_scraper.py lines
\* 50-53 and 75-78 over the elements idx of elems, in order: the records
\* appended and, for each, the index of the element it came from
ExtractLoop(kind, elems, idx, base_url) ==
    LET kept == {k \in 1..Len(idx) :
                   KeepRecord(ExtractOne(kind, elems[idx[k]], base_url))}
        nth(n) == CHOOSE k \in kept :
                      Cardinality({j \in kept : j <= k}) = n
    IN [products |-> [n \in 1..Cardinality(kept) |->
                         ExtractOne(kind, elems[idx[nth(n)]], base_url)],
        from |-> [n \in 1..Cardinality(kept) |-> idx[nth(n)]]]

\* html_scraper.py line 75: unique_links[:50]
max_direct_links == 50

\* html_scraper.py lines 61-71: the links kept by the direct-link method,
\* in order: an href that holds "/products/" and none of the skipped words,
\* first occurrence of each href
SkippedWords ==
    {<<"g", "i", "f", "t", "c", "a", "r", "d">>,
     <<"g", "i", "f", "t", "-", "c", "a", "r", "d">>,
     <<"c", "a", "r", "d">>}
UniqueLinks(links) ==
    LET ok(i) ==
            /\ links[i].href # None
            /\ links[i].href # Str(<<>>)
            /\ InStr(<<"/", "p", "r", "o", "d", "u", "c", "t", "s", "/">>,
                     links[i].href.chars)
            /\ \A w \in SkippedWords : ~InStr(w, Lower(links[i].href.chars))
            /\ \A j \in 1..(i - 1) : links[j].href # links[i].href
        kept == {i \in 1..Len(links) : ok(i)}
        nth(n) == CHOOSE i \in kept : Cardinality({j \in kept : j <= i}) = n
    IN [n \in 1..Min(Cardinality(kept), max_direct_links) |-> nth(n)]

(***************************************************************************)
(* _determine_gender of the two scrapers.  A stage gives "women", "men",   *)
(* "None" (return None) or "next" (the function goes on to the next        *)
(* stage); a text is None when its element is missing.                     *)
(***************************************************************************)
T_men == <<"m", "e", "n">>
T_man == <<"m", "a", "n">>
T_male == <<"m", "a", "l", "e">>
T_women == <<"w", "o">> \o T_men
T_woman == <<"w", "o">> \o T_man
T_female == <<"f", "e">> \o T_male
T_unisex == <<"u", "n", "i", "s", "e", "x">>
T_s == <<"'", "s">>
T_for == <<"f", "o", "r", " ">>
T_only == <<" ", "o", "n", "l", "y">>
T_wearing == <<" ", "w", "e", "a", "r", "i", "n", "g">>
Paren(t) == <<"(">> \o t \o <<")">>
T_collections == <<"/", "c", "o", "l", "l", "e", "c", "t", "i", "o", "n", "s">>

\* any(term in text for term in terms)
AnyIn(terms, text) == \E term \in terms : InStr(term, text)

\* browser_scraper.py lines 348-351, 375-378, 388-391 and html_scraper.py
\* lines 498-501, 516-519: the test of a lower-cased text for "women",
\* "woman", "female", then for "men", "man", "male"
WideTest(text) ==
    IF AnyIn({T_women, T_woman, T_female}, text) THEN "women"
    ELSE IF AnyIn({T_men, T_man, T_male}, text) THEN "men"
    ELSE "next"

\* browser_scraper.py lines 358-361 and html_scraper.py lines 525-528,
\* 534-537: the test for "women", "woman", then for "men", "man"
NarrowTest(text) ==
    IF AnyIn({T_women, T_woman}, text) THEN "women"
    ELSE IF AnyIn({T_men, T_man}, text) THEN "men"
    ELSE "next"

\* lines 346-351 / 497-501
UrlStage(url) == WideTest(Lower(url.chars))

\* lines 353-361 / 521-528
PageTitleStage(title) ==
    IF title = None THEN "next" ELSE NarrowTest(Lower(title.chars))

\* lines 363-372 / 503-510: the content of the description meta tag
MetaStage(content) ==
    IF content = None \/ content = Str(<<>>) THEN "next"
    ELSE LET desc_lower == Lower(content.chars)
         IN IF AnyIn({Paren(T_man), Paren(T_male), T_man \o T_wearing},
                     desc_lower)
            THEN "men"
            ELSE IF AnyIn({Paren(T_woman), Paren(T_female),
                           T_woman \o T_wearing}, desc_lower)
            THEN "women"
            ELSE "next"

\* lines 374-384 / 512-519: the first breadcrumb that matches
BreadcrumbStage(breadcrumbs) ==
    LET hits == {i \in 1..Len(breadcrumbs) :
                   WideTest(Lower(breadcrumbs[i].chars)) # "next"}
    IN IF hits = {} THEN "next"
       ELSE WideTest(Lower(breadcrumbs[CHOOSE i \in hits :
                                          \A j \in hits : i <= j].chars))

\* browser_scraper.py lines 386-395
BrowserSelectorStage(text) ==
    IF text = None THEN "next" ELSE WideTest(Lower(text.chars))

\* html_scraper.py lines 530-537
HtmlSelectorStage(text) ==
    IF text = None THEN "next" ELSE NarrowTest(Lower(text.chars))

MenTerms == {T_men \o T_s, T_man \o T_s, T_male}
WomenTerms == {T_women \o T_s, T_woman \o T_s, T_female}

\* browser_scraper.py lines 397-407: the title of the product
ProductTitleStage(title) ==
    IF title = None THEN "next"
    ELSE LET title_lower == Lower(title.chars)
         IN IF AnyIn(MenTerms \cup {T_for \o T_men, T_men \o T_only},
                     title_lower)
            THEN "men"
            ELSE IF AnyIn(WomenTerms
                          \cup {T_for \o T_women, T_women \o T_only},
                          title_lower)
            THEN "women"
            ELSE IF InStr(T_unisex, title_lower) THEN "None"
            ELSE "next"

\* browser_scraper.py lines 409-420: the description of the product
BrowserDescriptionStage(description) ==
    IF description = None THEN "next"
    ELSE LET desc_lower == Lower(description.chars)
         IN IF AnyIn(MenTerms \cup {T_unisex}, desc_lower)
            THEN (IF InStr(T_unisex, desc_lower) THEN "None" ELSE "men")
            ELSE IF AnyIn(WomenTerms, desc_lower) THEN "women"
            ELSE "next"

\* html_scraper.py lines 539-547
HtmlDescriptionStage(description) ==
    IF description = None THEN "next"
    ELSE LET desc_lower == Lower(description.chars)
         IN IF AnyIn(MenTerms \cup {T_unisex}, desc_lower)
            THEN (IF InStr(T_unisex, desc_lower) THEN "None" ELSE "men")
            ELSE "next"

\* browser_scraper.py lines 422-427: the URL of the listing page
PageUrlStage(page_url) ==
    LET page_lower == Lower(page_url)
    IN IF AnyIn({T_collections \o <<"/">> \o T_women, <<"/">> \o T_women},
                page_lower)
       THEN "women"
       ELSE IF AnyIn({T_collections \o <<"/">> \o T_men, <<"/">> \o T_men},
                     page_lower)
       THEN "men"
       ELSE "next"

\* the value returned by a function whose stages give verdicts, in order:
\* that of the first stage that returns, None at the end (lines 430 / 550)
FirstVerdict(verdicts) ==
    LET hits == {i \in 1..Len(verdicts) : verdicts[i] # "next"}
    IN IF hits = {} THEN "None"
       ELSE verdicts[CHOOSE i \in hits : \A j \in hits : i <= j]

\* browser_scraper.py lines 345-435.  product_url None makes line 347 raise,
\* and a failing query of the page makes line 354 raise: the except clause
\* of lines 432-435 returns None.
BrowserDetermineGender(signals) ==
    IF signals.product_url = None THEN "None"
    ELSE IF UrlStage(signals.product_url) # "next" THEN UrlStage(signals.product_url)
    ELSE IF signals.dom_fails THEN "None"
    ELSE FirstVerdict(<<PageTitleStage(signals.page_title),
                        MetaStage(signals.meta),
                        BreadcrumbStage(signals.breadcrumbs),
                        BrowserSelectorStage(signals.gender_text),
                        ProductTitleStage(signals.title),
                        BrowserDescriptionStage(signals.description),
                        PageUrlStage(signals.page_url)>>)

\* html_scraper.py lines 496-550
HtmlDetermineGender(signals) ==
    FirstVerdict(<<UrlStage(signals.product_url),
                   MetaStage(signals.meta),
                   BreadcrumbStage(signals.breadcrumbs),
                   PageTitleStage(signals.page_title),
                   HtmlSelectorStage(signals.gender_text),
                   HtmlDescriptionStage(signals.description)>>)

(***************************************************************************)
(* scrape_site_async (src/scraper/scraper.py lines 66-195)                 *)
(***************************************************************************)
\* scraper.py line 119, html_scraper.py line 106, embeddings.py line 155
max_retries == 3
fetch_max_retries == 3
download_max_retries == 3

\* an int argument (limit is Optional[int])
PyInt(n) == [kind |-> "int", val |-> n]

\* line 108: if limit
Truthy(limit) == limit # None /\ limit.val # 0

\* lines 108-109: the length of listings after listings[:limit]
SliceLength(n, limit) == IF Truthy(limit) THEN Min(n, limit.val) ELSE n

\* html_scraper.py lines 101-305, one call of scrape_product_page: the
\* session.get calls it made (the loop of lines 108-119 ends at the first
\* answer that raises nothing, or after fetch_max_retries failures) and
\* whether it returned a product dict (None after the last failed fetch,
\* line 119, and after any exception, line 305; nothing is raised)
ProductPageOutcomes ==
    [fetches : 1..fetch_max_retries, data : BOOLEAN]

\* lines 142-153 with embeddings.py lines 82-188: how the embedding of one
\* image ends, and the requests.get calls of _download_image before it
\*   no_image - image_url is empty, nothing is called (line 143)
\*   vector   - a vector came back
\*   null     - None came back: every download failed (embeddings.py line
\*              186) or the batch could not be processed (line 149)
\*   raises   - the model could not be loaded (embeddings.py lines 94, 38)
EmbeddingOutcomes ==
    {[result |-> "no_image", downloads |-> 0],
     [result |-> "raises", downloads |-> 0]}
    \cup [result : {"vector", "null"}, downloads : 1..download_max_retries]

\* mutant: the exception of the embedding call is not caught
AfterEmbedding_Propagates(result) ==
    IF result = "raises" THEN "abort" ELSE "append"

\* lines 145-153: the call is in a try block of its own, the record is
\* appended at line 155 whatever happened
AfterEmbedding(result) == "append"

\* lines 138-139 and 159-169: a record of products; detailed tells the
\* merged record from the basic one, embedding whether it has the key
SiteProduct(category, listing, detailed, embedding) ==
    [category |-> category, listing |-> listing, detailed |-> detailed,
     embedding |-> embedding]

(***************************************************************************)
(* Bounds of the model and the inputs drawn within them                    *)
(***************************************************************************)
MaxPriceLen == 3
MaxBatch == 3
MaxButtons == 2
MaxClicks == 2
MaxContainers == 6
SmallLimit == 3
MaxStoreBatch == 1
MaxCalls == 2
MaxElements == 2
MaxCategories == 2
MaxListings == 2
MaxSiteProducts == 3

RECURSIVE SeqsUpTo(_, _)
SeqsUpTo(S, n) ==
    IF n = 0 THEN {<<>>}
    ELSE SeqsUpTo(S, n - 1) \cup [1..n -> S]

\* a run of digits too long for a double
HugeDigits == [i \in 1..(float_max_digits + 1) |-> "9"]
PriceAlphabet == {"1", "0", ",", ".", " ", "E"}
PriceInputs ==
    {None}
    \cup {Str(chars) : chars \in SeqsUpTo(PriceAlphabet, MaxPriceLen)}
    \cup {Str(<<"1", "3", "9", ",", "0", "0", " ", "E", "U", "R">>),
          Str(<<"1", ".", "1", "3", "9", ",", "0", "0">>),
          Str(<<"1", ",", "1", "3", "9", ".", "0", "0">>),
          Str(<<"1", "3", "9", ".", "0", "0">>),
          Str(<<"n", "o", "t", " ", "a", " ", "p", "r", "i", "c", "e">>),
          Str(<<"-", "5">>),
          Str(HugeDigits), Str(<<"0">> \o HugeDigits \o <<".", "5", " ", "E">>)}

Sources == {"s", "s:x"}
Urls == {"u", "x:u"}
Titles == {"t1", "t2"}
PriceOfTitle(title) ==
    IF title = "t1" THEN Str(<<"1", "3", "9", ",", "0", "0", " ", "E", "U", "R">>)
    ELSE None
ImageOfTitle(title) == IF title = "t1" THEN "img" ELSE "img2"
EmbeddingOfTitle(title) ==
    IF title = "t2" THEN [kind |-> "vector", of |-> "img2"] ELSE None
ValidProducts ==
    {Product(s, u, ImageOfTitle(t), t, PriceOfTitle(t), EmbeddingOfTitle(t)) :
        s \in Sources, u \in Urls, t \in Titles}
InvalidProducts ==
    {Product("", "u", "img", "t1", None, None),
     Product("s", "", "img", "t1", None, None),
     Product("s", "u", "", "t1", None, None),
     Product("s", "u", "img", "", None, None)}
\* a batch of n products with n distinct urls, to fill more than one chunk
LargeBatch(n) ==
    [i \in 1..n |-> Product("s", "u" \o ToString(i), "img", "t1", None, None)]
BatchInputs ==
    SeqsUpTo(ValidProducts \cup InvalidProducts, MaxBatch)
    \cup {LargeBatch(chunk_size), LargeBatch(chunk_size + 1),
          LargeBatch(2 * chunk_size + 1)}

\* the URLs and the elements of the pages
Https == <<"h", "t", "t", "p", "s", ":">>
HostA == <<"/", "/", "a", ".", "i", "o">>
HostB == <<"/", "/", "b", ".", "i", "o">>
HostC == <<"/", "/", "c", ".", "i", "o">>
CollectionPath == <<"/", "c", "o", "l", "l", "e", "c", "t", "i", "o", "n",
                    "s", "/", "a">>
ProductPath == <<"/", "p", "r", "o", "d", "u", "c", "t", "s", "/", "x">>
CardPath == <<"/", "p", "r", "o", "d", "u", "c", "t", "s", "/", "C", "a",
              "r", "d">>
ImagePath == <<"/", "i", ".", "j", "p", "g">>
EntryUrl == Https \o HostA \o CollectionPath
\* the document of the entry URL, or the one a redirect leads to
DocumentUrls == {EntryUrl, Https \o HostB \o CollectionPath}
AbsoluteHref == Str(Https \o HostA \o ProductPath)
RootRelativeHref == Str(ProductPath)
ProtocolRelativeHref == Str(HostC \o ProductPath)
PathRelativeHref == Str(<<"s">> \o ProductPath)
Hrefs == {None, AbsoluteHref, RootRelativeHref, ProtocolRelativeHref,
          PathRelativeHref, Str(CardPath)}
Srcs == {None, Str(HostC \o ImagePath), Str(ImagePath)}
ContainerInputs ==
    {Container(TRUE, href, src, FALSE) : href \in Hrefs, src \in Srcs}
    \cup {Container(FALSE, None, None, FALSE),
          Container(TRUE, AbsoluteHref, None, TRUE)}
\* ten containers with a product link, the f-th of which fails
TenContainers(f) ==
    [i \in 1..10 |->
        Container(TRUE, Str(AbsoluteHref.chars \o <<LowerCase[i]>>),
                  Str(ImagePath), i = f)]
ContainerLists ==
    SeqsUpTo(ContainerInputs, MaxElements)
    \cup {TenContainers(f) : f \in 1..10}

\* the texts of the gender signals
Neutral == Str(<<"T", "e", "e">>)
MenUrl == Str(ProductPath \o <<"-">> \o T_men)
WomenUrl == Str(ProductPath \o <<"-">> \o T_women)
MenListingUrl == Https \o HostA \o T_collections \o <<"/">> \o T_men
GenderInputs ==
    [product_url : {None, Str(ProductPath), MenUrl, WomenUrl},
     dom_fails : BOOLEAN,
     page_title : {None, Str(<<"M", "e", "n">>), Str(<<"W", "o">> \o T_men)},
     meta : {None, Str(Paren(T_man)), Str(T_woman \o T_wearing)},
     breadcrumbs : {<<>>, <<Neutral, Str(T_men)>>, <<Str(T_female)>>},
     gender_text : {None, Str(T_men), Str(T_female)},
     title : {None, Neutral, Str(T_men \o T_s), Str(T_women \o T_s),
              Str(<<"U", "n", "i", "s", "e", "x", " ">> \o T_men \o T_s),
              Str(T_unisex)},
     description : {None, Str(T_man \o T_s), Str(T_female),
                    Str(T_unisex \o <<" ">> \o T_women \o T_s)},
     page_url : {EntryUrl, MenListingUrl}]

\* limit: absent, 0 (--limit 0) or a positive number
LimitInputs == {None} \cup {PyInt(n) : n \in 0..MaxListings}
SiteConfigs ==
    [mode : {"html", "browser"}, sync : BOOLEAN, limit : LimitInputs,
     categories : 0..MaxCategories]

StoreBatchInputs == SeqsUpTo(ValidProducts \cup InvalidProducts, MaxStoreBatch)

MaxProductsInputs == {0, SmallLimit, default_max_products}
ButtonInputs == SeqsUpTo(ButtonOutcomes, MaxButtons)
\* what lines 123-209 make of the buttons of one attempt: button_clicked,
\* the clicks to add to successful_clicks, and the attempt's history
SeekOutcomes ==
    {ProcessButtons(buttons, [button_clicked |-> FALSE, clicks |-> 0,
                              att |-> NewAttempt]) : buttons \in ButtonInputs}

(***************************************************************************)
(* Initial states                                                          *)
(***************************************************************************)
PriceIdle ==
    /\ price_str = None
    /\ price_pc = "idle"
    /\ price_result = None

UpsertIdle ==
    /\ products = <<>>
    /\ up_pc = "idle"
    /\ normalized_products = <<>>
    /\ chunk_i = 0
    /\ success_count = 0
    /\ posted = <<>>
    /\ outcomes = <<>>
    /\ up_result = FALSE

SinkIdle ==
    /\ stored = {}
    /\ stored_at_call = {}
    /\ calls = 0

ExtractIdle ==
    /\ ex_kind = "browser"
    /\ ex_pc = "idle"
    /\ entry_url = <<>>
    /\ document_url = <<>>
    /\ page_fails = FALSE
    /\ containers = <<>>
    /\ ex_products = <<>>
    /\ ex_from = <<>>

NoSignals ==
    [product_url |-> None, dom_fails |-> FALSE, page_title |-> None,
     meta |-> None, breadcrumbs |-> <<>>, gender_text |-> None,
     title |-> None, description |-> None, page_url |-> <<>>]

GenderIdle ==
    /\ gd_kind = "browser"
    /\ gd_pc = "idle"
    /\ gd_signals = NoSignals
    /\ gd_result = "None"

SiteIdle ==
    /\ st_config = [mode |-> "html", sync |-> FALSE, limit |-> None,
                    categories |-> 0]
    /\ st_pc = "idle"
    /\ st_cat = 1
    /\ st_listings = 0
    /\ st_idx = 0
    /\ st_attempt = 0
    /\ st_fetches = 0
    /\ st_downloads = 0
    /\ st_embed = "none"
    /\ st_products = <<>>
    /\ st_handed = <<>>
    /\ st_accepted = 0
    /\ st_result = FALSE

PageIdle ==
    /\ max_products = default_max_products
    /\ pg_pc = "idle"
    /\ page_products = 0
    /\ previous_count = 0
    /\ no_change_count = 0
    /\ load_attempts = 0
    /\ successful_clicks = 0
    /\ button_clicked = FALSE
    /\ exit_reason = "none"
    /\ last_growth = 0
    /\ ever_found = FALSE
    /\ att = NewAttempt

PriceInit ==
    /\ price_str \in PriceInputs
    /\ price_pc = "call"
    /\ price_result = None
    /\ UpsertIdle
    /\ SinkIdle
    /\ ExtractIdle
    /\ GenderIdle
    /\ SiteIdle
    /\ PageIdle

UpsertInit ==
    /\ products \in BatchInputs
    /\ up_pc = "call"
    /\ normalized_products = <<>>
    /\ chunk_i = 0
    /\ success_count = 0
    /\ posted = <<>>
    /\ outcomes = <<>>
    /\ up_result = FALSE
    /\ stored = {}
    /\ stored_at_call = {}
    /\ calls = 1
    /\ PriceIdle
    /\ PageIdle
    /\ ExtractIdle
    /\ GenderIdle
    /\ SiteIdle

\* the first call of upsert_products on an empty table
StoreInit ==
    /\ products \in StoreBatchInputs
    /\ up_pc = "call"
    /\ normalized_products = <<>>
    /\ chunk_i = 0
    /\ success_count = 0
    /\ posted = <<>>
    /\ outcomes = <<>>
    /\ up_result = FALSE
    /\ stored = {}
    /\ stored_at_call = {}
    /\ calls = 1
    /\ PriceIdle
    /\ PageIdle
    /\ ExtractIdle
    /\ GenderIdle
    /\ SiteIdle

\* lines 58-64
PageInit ==
    /\ max_products \in MaxProductsInputs
    /\ pg_pc = "start"
    /\ page_products = 0
    /\ previous_count = 0
    /\ no_change_count = 0
    /\ load_attempts = 0
    /\ successful_clicks = 0
    /\ button_clicked = FALSE
    /\ exit_reason = "none"
    /\ last_growth = 0
    /\ ever_found = FALSE
    /\ att = NewAttempt
    /\ PriceIdle
    /\ UpsertIdle
    /\ SinkIdle
    /\ ExtractIdle
    /\ GenderIdle
    /\ SiteIdle

\* scraper.py line 86: the call for a site of the configuration
SiteInit ==
    /\ st_config \in SiteConfigs
    /\ st_pc = "category"
    /\ st_cat = 1
    /\ st_listings = 0
    /\ st_idx = 0
    /\ st_attempt = 0
    /\ st_fetches = 0
    /\ st_downloads = 0
    /\ st_embed = "none"
    /\ st_products = <<>>
    /\ st_handed = <<>>
    /\ st_accepted = 0
    /\ st_result = FALSE
    /\ PriceIdle
    /\ UpsertIdle
    /\ SinkIdle
    /\ PageIdle
    /\ ExtractIdle
    /\ GenderIdle

\* browser_scraper.py line 258 / html_scraper.py line 25: the call, on a
\* page whose document may have another origin than the URL requested; a
\* page that cannot be queried yields no elements
ExtractInit ==
    /\ ex_kind \in {"browser", "listing", "links"}
    /\ ex_pc = "call"
    /\ entry_url = EntryUrl
    /\ document_url \in DocumentUrls
    /\ page_fails \in BOOLEAN
    /\ containers \in ContainerLists
    /\ page_fails => containers = <<>>
    /\ ex_products = <<>>
    /\ ex_from = <<>>
    /\ PriceIdle
    /\ UpsertIdle
    /\ SinkIdle
    /\ PageIdle
    /\ GenderIdle
    /\ SiteIdle

\* browser_scraper.py line 332 / html_scraper.py line 484: the call.  The
\* HTML scraper passes the URL of the product page, a string, and makes no
\* call that can fail; it reads no product title and no listing URL.
GenderInit ==
    /\ gd_kind \in {"browser", "html"}
    /\ gd_pc = "call"
    /\ gd_signals \in GenderInputs
    /\ gd_kind = "html" =>
          /\ gd_signals.product_url # None
          /\ ~gd_signals.dom_fails
          /\ gd_signals.title = None
          /\ gd_signals.page_url = EntryUrl
    /\ gd_result = "None"
    /\ PriceIdle
    /\ UpsertIdle
    /\ SinkIdle
    /\ PageIdle
    /\ ExtractIdle
    /\ SiteIdle

(***************************************************************************)
(* Actions of _parse_price and scrape_all_products                         *)
(***************************************************************************)
ParsePrice ==
    /\ price_pc = "call"
    /\ price_result' = _parse_price(price_str)
    /\ price_pc' = "returned"
    /\ UNCHANGED <<price_str, up_vars, sink_vars, pg_vars, ex_vars, gd_vars,
                 site_vars>>

\* lines 45-67: the page is loaded and the loop condition is tested for the
\* first time
PageStart ==
    /\ pg_pc = "start"
    /\ IF LoopCondition(page_products, load_attempts)
       THEN /\ pg_pc' = "seek"
            /\ load_attempts' = load_attempts + 1
            /\ UNCHANGED exit_reason
       ELSE /\ pg_pc' = "returned"
            /\ exit_reason' = "while"
            /\ UNCHANGED load_attempts
    /\ UNCHANGED <<max_products, page_products, previous_count,
                   no_change_count, successful_clicks, button_clicked,
                   last_growth, ever_found, att>>
    /\ UNCHANGED <<price_vars, up_vars, sink_vars, ex_vars, gd_vars,
                 site_vars>>

\* lines 69-217: the buttons are looked for and clicked; the loop is left
\* when none was clicked and the attempts have reached no_button_attempts.
\* The calls of lines 72, 73 and 102 (page.evaluate, wait_for_timeout,
\* page.query_selector_all) are in no try block, and neither is the loop:
\* an exception of one of them leaves scrape_all_products
SeekButton ==
    /\ pg_pc = "seek"
    /\ \/ \E st \in SeekOutcomes :
            /\ successful_clicks + st.clicks <= MaxClicks
            /\ button_clicked' = st.button_clicked
            /\ successful_clicks' = successful_clicks + st.clicks
            /\ ever_found' = (ever_found \/ st.att.found)
            /\ att' = st.att
            /\ IF GivesUp(st.button_clicked, load_attempts)
               THEN /\ pg_pc' = "returned"
                    /\ exit_reason' = "no_button"
               ELSE /\ pg_pc' = "extract"
                    /\ UNCHANGED exit_reason
       \/ /\ pg_pc' = "raised"
          /\ exit_reason' = "seek_raised"
          /\ UNCHANGED <<button_clicked, successful_clicks, ever_found, att>>
    /\ UNCHANGED <<max_products, page_products, previous_count,
                   no_change_count, load_attempts, last_growth>>
    /\ UNCHANGED <<price_vars, up_vars, sink_vars, ex_vars, gd_vars,
                 site_vars>>

\* lines 219-245 and the next test of line 66: the visible products are
\* extracted, the counters updated, and the loop is left or entered again;
\* an exception of page.query_selector_all (line 263, called from line
\* 220) leaves scrape_all_products
ExtractProducts ==
    /\ pg_pc = "extract"
    /\ \/ \E current \in 0..MaxContainers :
            LET grew == Grew(current, previous_count)
                count == IF grew THEN current ELSE page_products
                stall == IF grew THEN 0 ELSE no_change_count + 1
            IN /\ page_products' = count
               /\ previous_count' = IF grew THEN current ELSE previous_count
               /\ no_change_count' = stall
               /\ last_growth' = IF grew THEN load_attempts ELSE last_growth
               /\ IF ~grew /\ Stalled(stall)
                  THEN /\ pg_pc' = "returned"
                       /\ exit_reason' = "stall"
                       /\ att' = [att EXCEPT !.extracted = TRUE]
                       /\ UNCHANGED <<load_attempts, button_clicked>>
                  ELSE IF ReachedLimit(count)
                  THEN /\ pg_pc' = "returned"
                       /\ exit_reason' = "max_products"
                       /\ att' = [att EXCEPT !.extracted = TRUE]
                       /\ UNCHANGED <<load_attempts, button_clicked>>
                  ELSE IF LoopCondition(count, load_attempts)
                  THEN /\ pg_pc' = "seek"
                       /\ load_attempts' = load_attempts + 1
                       /\ button_clicked' = FALSE
                       /\ att' = NewAttempt
                       /\ UNCHANGED exit_reason
                  ELSE /\ pg_pc' = "returned"
                       /\ exit_reason' = "while"
                       /\ att' = [att EXCEPT !.extracted = TRUE]
                       /\ UNCHANGED <<load_attempts, button_clicked>>
       \/ /\ pg_pc' = "raised"
          /\ exit_reason' = "extract_raised"
          /\ UNCHANGED <<page_products, previous_count, no_change_count,
                         last_growth, load_attempts, button_clicked, att>>
    /\ UNCHANGED <<max_products, successful_clicks, ever_found>>
    /\ UNCHANGED <<price_vars, up_vars, sink_vars, ex_vars, gd_vars,
                 site_vars>>

(***************************************************************************)
(* Actions of the later calls, the listing extractors, _determine_gender   *)
(***************************************************************************)
\* scraper.py line 184, reached again on the next run: upsert_products is
\* called with the products of that run, on the table the earlier runs left
UpsertAgain ==
    /\ up_pc = "returned"
    /\ calls < MaxCalls
    /\ products' \in StoreBatchInputs
    /\ up_pc' = "call"
    /\ normalized_products' = <<>>
    /\ chunk_i' = 0
    /\ success_count' = 0
    /\ posted' = <<>>
    /\ outcomes' = <<>>
    /\ up_result' = FALSE
    /\ stored_at_call' = stored
    /\ calls' = calls + 1
    /\ UNCHANGED stored
    /\ UNCHANGED <<price_vars, pg_vars, ex_vars, gd_vars,
                 site_vars>>

\* browser_scraper.py lines 258-274: query_selector_all (line 263) is
\* outside every try block, the loop body is inside one
ExtractProductsFromPage ==
    /\ ex_pc = "call"
    /\ ex_kind = "browser"
    /\ IF page_fails
       THEN /\ ex_pc' = "raised"
            /\ UNCHANGED <<ex_products, ex_from>>
       ELSE LET out == ExtractLoop("browser", containers,
                                   [i \in 1..Len(containers) |-> i],
                                   document_url)
            IN /\ ex_products' = out.products
               /\ ex_from' = out.from
               /\ ex_pc' = "returned"
    /\ UNCHANGED <<ex_kind, entry_url, document_url, page_fails, containers>>
    /\ UNCHANGED <<price_vars, up_vars, sink_vars, pg_vars, gd_vars,
                 site_vars>>

\* html_scraper.py lines 25-85: the whole body is inside one try block; the
\* extractors get url, the URL requested, as base_url (lines 51 and 76)
ScrapeCategoryPage ==
    /\ ex_pc = "call"
    /\ ex_kind \in {"listing", "links"}
    /\ IF page_fails
       THEN /\ ex_products' = <<>>
            /\ ex_from' = <<>>
       ELSE LET out == IF ex_kind = "listing"
                       THEN ExtractLoop("listing", containers,
                                        [i \in 1..Len(containers) |-> i],
                                        entry_url)
                       ELSE ExtractLoop("links", containers,
                                        UniqueLinks(containers), entry_url)
            IN /\ ex_products' = out.products
               /\ ex_from' = out.from
    /\ ex_pc' = "returned"
    /\ UNCHANGED <<ex_kind, entry_url, document_url, page_fails, containers>>
    /\ UNCHANGED <<price_vars, up_vars, sink_vars, pg_vars, gd_vars,
                 site_vars>>

\* browser_scraper.py lines 332-435
DetermineGenderBrowser ==
    /\ gd_pc = "call"
    /\ gd_kind = "browser"
    /\ gd_result' = BrowserDetermineGender(gd_signals)
    /\ gd_pc' = "returned"
    /\ UNCHANGED <<gd_kind, gd_signals>>
    /\ UNCHANGED <<price_vars, up_vars, sink_vars, pg_vars, ex_vars,
                 site_vars>>

\* html_scraper.py lines 484-550
DetermineGenderHtml ==
    /\ gd_pc = "call"
    /\ gd_kind = "html"
    /\ gd_result' = HtmlDetermineGender(gd_signals)
    /\ gd_pc' = "returned"
    /\ UNCHANGED <<gd_kind, gd_signals>>
    /\ UNCHANGED <<price_vars, up_vars, sink_vars, pg_vars, ex_vars,
                 site_vars>>

(***************************************************************************)
(* Actions of scrape_site_async                                            *)
(***************************************************************************)
\* the end of the body of the loop of line 112: the next listing of the
\* category, or the next category
NextListing ==
    /\ st_attempt' = 0
    /\ st_fetches' = 0
    /\ IF st_idx < st_listings
       THEN /\ st_idx' = st_idx + 1
            /\ st_pc' = "attempt"
            /\ UNCHANGED st_cat
       ELSE /\ st_cat' = st_cat + 1
            /\ st_pc' = "category"
            /\ UNCHANGED st_idx

\* lines 89-112: the listings of the next category are scraped and cut to
\* limit.  scrape_category_page returns [] on every error
\* (html_scraper.py line 85); scrape_all_products may raise (there is no
\* try block around page.goto or the loop), which ends the run at lines
\* 193-195
ScrapeCategory ==
    /\ st_pc = "category"
    /\ IF st_cat > st_config.categories
       THEN /\ st_pc' = "finish"
            /\ UNCHANGED <<st_cat, st_listings, st_idx, st_result>>
       ELSE \/ \E n \in 0..MaxListings :
                 /\ st_listings' = SliceLength(n, st_config.limit)
                 /\ Len(st_products) + st_listings' <= MaxSiteProducts
                 /\ IF st_listings' = 0
                    THEN /\ st_cat' = st_cat + 1
                         /\ UNCHANGED <<st_pc, st_idx>>
                    ELSE /\ st_idx' = 1
                         /\ st_pc' = "attempt"
                         /\ UNCHANGED st_cat
                 /\ UNCHANGED st_result
            \/ /\ st_config.mode = "browser"
               /\ st_pc' = "returned"
               /\ st_result' = FALSE
               /\ UNCHANGED <<st_cat, st_listings, st_idx>>
    /\ UNCHANGED <<st_config, st_attempt, st_fetches, st_downloads, st_embed,
                   st_products, st_handed, st_accepted>>
    /\ UNCHANGED <<price_vars, up_vars, sink_vars, pg_vars, ex_vars, gd_vars>>

\* lines 120-133, one pass of the retry loop: scrape_product_page is
\* called; a product dict ends the loop, None goes on with the next
\* attempt (the except branch of line 129 is never entered, as
\* scrape_product_page raises nothing)
ScrapeProductPage ==
    /\ st_pc = "attempt"
    /\ st_embed' = "none"
    /\ st_downloads' = 0
    /\ \E o \in ProductPageOutcomes :
         /\ st_fetches' = st_fetches + o.fetches
         /\ IF o.data
            THEN /\ st_pc' = "embed"
                 /\ UNCHANGED st_attempt
            ELSE IF st_attempt + 1 < max_retries
            THEN /\ st_attempt' = st_attempt + 1
                 /\ UNCHANGED st_pc
            ELSE /\ st_pc' = "fallback"
                 /\ UNCHANGED st_attempt
    /\ UNCHANGED <<st_config, st_cat, st_listings, st_idx, st_products,
                   st_handed, st_accepted, st_result>>
    /\ UNCHANGED <<price_vars, up_vars, sink_vars, pg_vars, ex_vars, gd_vars>>

\* lines 135-155: the listing and the product dict are merged, the
\* embedding is asked for, the record is appended
Embed ==
    /\ st_pc = "embed"
    /\ \E o \in EmbeddingOutcomes :
         /\ st_embed' = o.result
         /\ st_downloads' = o.downloads
         /\ IF AfterEmbedding(o.result) = "append"
            THEN /\ st_products' =
                       Append(st_products,
                              SiteProduct(st_cat, st_idx, TRUE,
                                          o.result = "vector"))
                 /\ NextListing
                 /\ UNCHANGED st_result
            ELSE /\ st_pc' = "returned"
                 /\ st_result' = FALSE
                 /\ UNCHANGED <<st_products, st_cat, st_idx, st_attempt,
                                st_fetches>>
    /\ UNCHANGED <<st_config, st_listings, st_handed, st_accepted>>
    /\ UNCHANGED <<price_vars, up_vars, sink_vars, pg_vars, ex_vars, gd_vars>>

\* lines 156-169: after max_retries calls without a product dict the
\* listing is appended with the fields of the site configuration
Fallback ==
    /\ st_pc = "fallback"
    /\ st_products' =
          Append(st_products, SiteProduct(st_cat, st_idx, FALSE, FALSE))
    /\ NextListing
    /\ UNCHANGED <<st_config, st_listings, st_downloads, st_embed, st_handed,
                   st_accepted, st_result>>
    /\ UNCHANGED <<price_vars, up_vars, sink_vars, pg_vars, ex_vars, gd_vars>>

\* lines 175-191: no products is a failure; with sync the products go to
\* upsert_products, whose answer is success_count > 0 (database.py line
\* 125) for a success_count between 0 and len(products)
Finish ==
    /\ st_pc = "finish"
    /\ st_pc' = "returned"
    /\ IF st_products = <<>>
       THEN /\ st_result' = FALSE
            /\ UNCHANGED <<st_handed, st_accepted>>
       ELSE IF st_config.sync
       THEN /\ st_handed' = Append(st_handed, st_products)
            /\ \E count \in 0..Len(st_products) :
                  /\ st_accepted' = count
                  /\ st_result' = UpsertResult(count)
       ELSE /\ st_result' = TRUE
            /\ UNCHANGED <<st_handed, st_accepted>>
    /\ UNCHANGED <<st_config, st_cat, st_listings, st_idx, st_attempt,
                   st_fetches, st_downloads, st_embed, st_products>>
    /\ UNCHANGED <<price_vars, up_vars, sink_vars, pg_vars, ex_vars, gd_vars>>

\* a KeyboardInterrupt between two products or two attempts: it is no
\* Exception, so line 193 does not catch it, and main ends the process
\* (cli.py lines 112-114)
Interrupt ==
    /\ st_pc \in {"category", "attempt"}
    /\ st_pc' = "interrupted"
    /\ UNCHANGED <<st_config, st_cat, st_listings, st_idx, st_attempt,
                   st_fetches, st_downloads, st_embed, st_products,
                   st_handed, st_accepted, st_result>>
    /\ UNCHANGED <<price_vars, up_vars, sink_vars, pg_vars, ex_vars, gd_vars>>

(***************************************************************************)
(* Specifications                                                          *)
(***************************************************************************)
SiteNext ==
    ScrapeCategory \/ ScrapeProductPage \/ Embed \/ Fallback \/ Finish
    \/ Interrupt
PriceNext == ParsePrice
UpsertNext == UpsertCall \/ PostChunk \/ UpsertReturn
StoreNext == UpsertNext \/ UpsertAgain
ExtractNext == ExtractProductsFromPage \/ ScrapeCategoryPage
GenderNext == DetermineGenderBrowser \/ DetermineGenderHtml
PageNext == PageStart \/ SeekButton \/ ExtractProducts

PriceSpec == PriceInit /\ [][PriceNext]_vars
UpsertSpec == UpsertInit /\ [][UpsertNext]_vars
StoreSpec == StoreInit /\ [][StoreNext]_vars
ExtractSpec == ExtractInit /\ [][ExtractNext]_vars
GenderSpec == GenderInit /\ [][GenderNext]_vars
PageSpec == PageInit /\ [][PageNext]_vars
SiteSpec == SiteInit /\ [][SiteNext]_vars
\* the loop is one coroutine that the event loop runs to its end
PageFairSpec == PageSpec /\ WF_vars(PageNext)

(***************************************************************************)
(* Properties of upsert_products and _parse_price                          *)
(***************************************************************************)
Valid(product) == _format_product_for_db(product) # None
SameKey(product, record) ==
    product.source = record.source /\ product.product_url = record.product_url
\* the last valid product of the batch that has the key of record
LastOccurrence(record) ==
    LET occ == {j \in 1..Len(products) :
                  Valid(products[j]) /\ SameKey(products[j], record)}
    IN products[CHOOSE j \in occ : \A k \in occ : k <= j]
AgreesWith(record, formatted) ==
    \A key \in DOMAIN formatted : record[key] = formatted[key]

\* C1: every record handed to the chunk loop is the formatted LAST valid
\* product of the batch with its (source, product_url).
C1_LastWriteWins ==
    up_pc = "chunks" =>
        \A i \in 1..Len(normalized_products) :
            AgreesWith(normalized_products[i],
                       _format_product_for_db(
                           LastOccurrence(normalized_products[i])))

PriceText139 == Str(<<"1", "3", "9", ",", "0", "0", " ", "E", "U", "R">>)
PriceText1139 == Str(<<"1", ".", "1", "3", "9", ",", "0", "0">>)
PriceTextNone == Str(<<"n", "o", "t", " ", "a", " ", "p", "r", "i", "c", "e">>)

\* C2: _parse_price gives 139.00 for "139,00 EUR", 1139.00 for "1.139,00",
\* and None for "not a price" and for None.
C2_PriceExamples ==
    price_pc = "returned" =>
        /\ price_str = PriceText139 => price_result = Float(139, 1)
        /\ price_str = PriceText1139 => price_result = Float(1139, 1)
        /\ price_str = PriceTextNone => price_result = None
        /\ price_str = None => price_result = None

\* the text has a token that float() accepts: a maximal run of digits and
\* points with a digit and at most one point
HasNumberToken(chars) ==
    \E a, b \in 1..Len(chars) :
        /\ a <= b
        /\ \A i \in a..b : IsTokenChar(chars[i])
        /\ a = 1 \/ ~IsTokenChar(chars[a - 1])
        /\ b = Len(chars) \/ ~IsTokenChar(chars[b + 1])
        /\ \E i \in a..b : chars[i] \in Digits
        /\ Cardinality({i \in a..b : chars[i] = "."}) <= 1

\* C20: _parse_price returns None or a finite float that is not negative,
\* and None for a text with no digit or whose every run of digits and points
\* has several points.
C20_NullOrFiniteNonNegative ==
    price_pc = "returned" =>
        /\ \/ price_result = None
           \/ price_result.kind = "float" /\ price_result.num >= 0
        /\ (price_str # None /\ ~HasNumberToken(price_str.chars))
              => price_result = None

\* C9: upsert_products returns True exactly when the batch is empty or a
\* chunk was accepted, and an empty batch sends nothing.
C9_SuccessIffEmptyOrAccepted ==
    up_pc = "returned" =>
        /\ up_result = (products = <<>>
                        \/ \E k \in 1..Len(outcomes) :
                               outcomes[k] \in {"200", "201", "204"})
        /\ products = <<>> => posted = <<>>

C9_Witness ==
    /\ up_pc = "returned"
    /\ up_result
    /\ \E k \in 1..Len(outcomes) : outcomes[k] = "204"
    /\ \E k \in 1..Len(outcomes) : outcomes[k] = "500"

\* C10: when the call returns, the requests sent are the chunks of the
\* deduplicated list, each once and in order, whatever the sink answered.
C10_EveryChunkSubmitted ==
    up_pc = "returned" =>
        LET n == Len(normalized_products)
        IN /\ Len(posted) = (n + chunk_size - 1) \div chunk_size
           /\ Len(outcomes) = Len(posted)
           /\ \A k \in 1..Len(posted) :
                 posted[k] = SubSeq(normalized_products,
                                    (k - 1) * chunk_size + 1,
                                    Min(k * chunk_size, n))

C10_Witness ==
    /\ up_pc = "returned"
    /\ Len(posted) = 3
    /\ outcomes[1] = "raises"
    /\ outcomes[2] = "500"

\* the four required fields of a product or of a record are non-empty
HasRequired(r) ==
    r.source # "" /\ r.product_url # "" /\ r.image_url # "" /\ r.title # ""

\* C11: every record of every request sent to the sink has a non-empty
\* source, product_url, image_url and title, and is the record of a product
\* of the batch that has all four: a product lacking one is dropped before
\* the deduplication, so it neither reaches a chunk nor shadows a valid one.
C11_OnlyValidRecordsSent ==
    /\ \A k \in 1..Len(posted) : \A i \in 1..Len(posted[k]) :
          /\ HasRequired(posted[k][i])
          /\ \E j \in 1..Len(products) :
                /\ HasRequired(products[j])
                /\ SameKey(products[j], posted[k][i])
                /\ products[j].title = posted[k][i].title
                /\ products[j].image_url = posted[k][i].image_url
    /\ up_pc = "returned" =>
          \A j \in 1..Len(products) :
              HasRequired(products[j]) =>
                  \E k \in 1..Len(posted) : \E i \in 1..Len(posted[k]) :
                      dedup_key(posted[k][i]) = dedup_key(products[j])

C11_Witness ==
    /\ up_pc = "returned"
    /\ Len(products) = 2
    /\ ~HasRequired(products[1])
    /\ HasRequired(products[2])
    /\ SameKey(products[1], products[2])
    /\ Len(posted) = 1
    /\ posted[1][1].title = products[2].title

\* C12: once the batch is formatted, two valid products with the same source
\* and product_url have the same id from _format_product_for_db, whatever
\* their title, price, image_url and embedding, and it is the id of the
\* record kept for that source and product_url.
C12_IdFromKeyOnly ==
    (up_pc = "chunks" /\ posted = <<>>) =>
        /\ \A i, j \in 1..Len(products) :
              (/\ Valid(products[i])
               /\ Valid(products[j])
               /\ SameKey(products[i], products[j]))
              => _format_product_for_db(products[i]).id
                 = _format_product_for_db(products[j]).id
        /\ \A i \in 1..Len(products) : \A n \in 1..Len(normalized_products) :
              (Valid(products[i]) /\ SameKey(products[i], normalized_products[n]))
              => normalized_products[n].id
                 = _format_product_for_db(products[i]).id

C12_Witness ==
    /\ up_pc = "chunks"
    /\ posted = <<>>
    /\ \E i, j \in 1..Len(products) :
          /\ Valid(products[i])
          /\ Valid(products[j])
          /\ SameKey(products[i], products[j])
          /\ products[i].title # products[j].title
          /\ products[i].price # products[j].price
          /\ products[i].image_url # products[j].image_url
          /\ products[i].embedding # products[j].embedding

\* C13: once the batch is formatted, two valid products get the same id and the same
\* deduplication key exactly when their source and their product_url are
\* both equal.
C13_SameIdentityIffSameKey ==
    (up_pc = "chunks" /\ posted = <<>>) =>
        \A i, j \in 1..Len(products) :
            (Valid(products[i]) /\ Valid(products[j])) =>
                LET fi == _format_product_for_db(products[i])
                    fj == _format_product_for_db(products[j])
                IN (fi.id = fj.id /\ dedup_key(fi) = dedup_key(fj))
                   <=> SameKey(products[i], products[j])

C15_RecordsOfNonFailingContainers ==
    (ex_kind = "browser" /\ ex_pc = "returned") =>
        LET good == {i \in 1..Len(containers) :
                       containers[i].link /\ ~containers[i].fails}
        IN /\ Len(ex_products) = Cardinality(good)
           /\ Len(ex_from) = Len(ex_products)
           /\ \A k \in 1..Len(ex_from) : ex_from[k] \in good
           /\ \A k, l \in 1..Len(ex_from) : k < l => ex_from[k] < ex_from[l]
           /\ \A k \in 1..Len(ex_products) :
                 /\ ex_products[k] # None
                 /\ ex_products[k] =
                        _extract_product_from_container(
                            containers[ex_from[k]], document_url)

C15_Witness ==
    /\ ex_kind = "browser"
    /\ ex_pc = "returned"
    /\ Len(containers) = 10
    /\ containers[4].fails
    /\ Len(ex_products) = 9
    /\ ex_from = <<1, 2, 3, 5, 6, 7, 8, 9, 10>>

\* an http or https URL with a host
IsAbsoluteUrl(url) ==
    /\ url # None
    /\ UrlScheme(url.chars) \in {<<"h", "t", "t", "p">>,
                                 <<"h", "t", "t", "p", "s">>}
    /\ UrlNetloc(url.chars) # <<>>

\* C16: every record a listing extractor returns has an absolute
\* product_url (so a link without href, or with an href that is not made
\* absolute, gives no record).
C16_ProductUrlAbsolute ==
    ex_pc = "returned" =>
        \A k \in 1..Len(ex_products) : IsAbsoluteUrl(ex_products[k].product_url)

Origin(url) == OriginPlus(url, <<>>)
IsProtocolRelative(ref) == ref # None /\ StartsWith(ref.chars, <<"/", "/">>)
IsRootRelative(ref) ==
    ref # None /\ StartsWith(ref.chars, <<"/">>) /\ ~IsProtocolRelative(ref)

\* C17: in every record returned, a product link or image URL "//host/path"
\* has become "https://host/path", and one "/path" has become the origin of
\* the document loaded followed by "/path".
C17_NormalizedAgainstDocument ==
    ex_pc = "returned" =>
        \A k \in 1..Len(ex_products) :
            LET c == containers[ex_from[k]]
                r == ex_products[k]
            IN /\ IsProtocolRelative(c.href)
                     => r.product_url = Str(Https \o c.href.chars)
               /\ IsRootRelative(c.href)
                     => r.product_url
                        = Str(Origin(document_url) \o c.href.chars)
               /\ IsProtocolRelative(c.src)
                     => r.image_url = Str(Https \o c.src.chars)
               /\ IsRootRelative(c.src)
                     => r.image_url = Str(Origin(document_url) \o c.src.chars)

(***************************************************************************)
(* Properties of _determine_gender                                         *)
(***************************************************************************)
\* the verdict of the selector stage and of the product's own texts (its
\* title, then its description) in the function called
SelectorVerdict ==
    IF gd_kind = "browser" THEN BrowserSelectorStage(gd_signals.gender_text)
    ELSE HtmlSelectorStage(gd_signals.gender_text)
ProductTextVerdict ==
    IF gd_kind = "browser"
    THEN FirstVerdict(<<ProductTitleStage(gd_signals.title),
                        BrowserDescriptionStage(gd_signals.description),
                        "next">>)
    ELSE HtmlDescriptionStage(gd_signals.description)
\* the call went through without an exception
NoException == gd_signals.product_url # None /\ ~gd_signals.dom_fails
\* no stage before the product's own texts matched
NoEarlierMatch ==
    /\ UrlStage(gd_signals.product_url) = "next"
    /\ PageTitleStage(gd_signals.page_title) = "next"
    /\ MetaStage(gd_signals.meta) = "next"
    /\ BreadcrumbStage(gd_signals.breadcrumbs) = "next"
    /\ SelectorVerdict = "next"
HasUnisex(text) == text # None /\ InStr(T_unisex, Lower(text.chars))

\* C18: a call that meets no exception returns the verdict of the first
\* stage that matches in the order URL, page title, description meta tag,
\* breadcrumbs, gender selector, the product's own title and description,
\* and None when none of these matches.
C18_FixedOrderFirstMatch ==
    (gd_pc = "returned" /\ NoException) =>
        gd_result =
            FirstVerdict(<<UrlStage(gd_signals.product_url),
                           PageTitleStage(gd_signals.page_title),
                           MetaStage(gd_signals.meta),
                           BreadcrumbStage(gd_signals.breadcrumbs),
                           SelectorVerdict,
                           ProductTextVerdict>>)

\* C19: when no earlier stage matched and the product's title, or the
\* description the function goes on to after the title, contains "unisex",
\* the call returns None.
C19_UnisexIsUnset ==
    (gd_pc = "returned" /\ NoException /\ NoEarlierMatch) =>
        /\ (gd_kind = "browser" /\ HasUnisex(gd_signals.title))
              => gd_result = "None"
        /\ (/\ HasUnisex(gd_signals.description)
            /\ gd_kind = "browser"
                  => ProductTitleStage(gd_signals.title) = "next")
              => gd_result = "None"

(***************************************************************************)
(* Properties of scrape_site_async                                         *)
(***************************************************************************)
LastProduct == st_products[Len(st_products)]

\* C21: a run that is interrupted after it has produced records hands
\* those records to the persistence sink.
C21_InterruptedRunPersists ==
    (st_pc = "interrupted" /\ st_config.sync /\ st_products # <<>>) =>
        st_handed = <<st_products>>

\* C22: a run that has produced records (some categories yielded records,
\* whatever happened to the others) hands them to the persistence sink,
\* and reports success when at least one record was persisted.
C22_PartialSuccessIsSuccess ==
    (st_pc = "returned" /\ st_config.sync /\ st_products # <<>>) =>
        /\ st_handed = <<st_products>>
        /\ st_accepted > 0 => st_result

\* C24: an embedding call that returns None or raises neither ends the run
\* nor drops the record: the merged record is appended without an
\* embedding and the run goes on with the next listing or category.
C24_EmbeddingFailureKeepsRecord ==
    /\ [](st_embed \in {"null", "raises", "no_image"} =>
            /\ st_products # <<>>
            /\ LastProduct.detailed
            /\ ~LastProduct.embedding)
    /\ [][st_pc = "embed" =>
            /\ st_pc' \in {"attempt", "category"}
            /\ st_products' =
                  Append(st_products,
                         SiteProduct(st_cat, st_idx, TRUE,
                                     st_embed' = "vector"))]_vars

C24_Witness ==
    /\ st_pc = "returned"
    /\ st_result
    /\ st_embed = "raises"
    /\ st_handed = <<st_products>>
    /\ Len(st_products) = 2
    /\ st_products[1].detailed /\ st_products[1].embedding
    /\ LastProduct.detailed /\ ~LastProduct.embedding

\* C25: for one product URL the page is fetched at most 3 times in all
\* before the listing data is used, and one image is downloaded at most 3
\* times.
C25_RetriesBounded ==
    /\ st_fetches <= max_retries
    /\ st_downloads <= download_max_retries

\* C26: with a limit N (N > 0) at most N products are scraped and passed
\* on for one site, whatever the number of its categories.
C26_LimitBoundsSite ==
    Truthy(st_config.limit) =>
        /\ Len(st_products) <= st_config.limit.val
        /\ \A k \in 1..Len(st_handed) :
              Len(st_handed[k]) <= st_config.limit.val

\* C23: an error raised while an affordance is looked for or triggered
\* never leaves scrape_all_products: the attempt goes on as one that found
\* no affordance.
C23_SeekErrorsNeverPropagate ==
    pg_pc = "raised" => exit_reason # "seek_raised"

\* C27: in each attempt the controller triggers only an affordance that is
\* visible and not disabled: no click of an attempt lands on an element
\* whose is_visible() was false.
C27_TriggersOnlyVisibleEnabled == att.clicks > 0 => ~att.hidden

\* C28: after every extraction pass the stall counter is the number of
\* attempts since the extracted count last exceeded the largest count seen
\* (previous_count); a pass resets it to 0 when the count grew strictly and
\* adds one otherwise; the collected records are replaced only on strict
\* growth, so their number never decreases and equals previous_count.
C28_StallCounterCountsSinceGrowth ==
    /\ [](/\ page_products = previous_count
          /\ pg_pc = "seek" =>
                no_change_count = (load_attempts - 1) - last_growth
          /\ (pg_pc = "returned" /\ att.extracted) =>
                no_change_count = load_attempts - last_growth)
    /\ [][(pg_pc = "extract" /\ pg_pc' # "raised") =>
            \/ /\ page_products' > page_products
               /\ previous_count' = page_products'
               /\ no_change_count' = 0
            \/ /\ page_products' = page_products
               /\ previous_count' = previous_count
               /\ no_change_count' = no_change_count + 1]_vars
    /\ [][page_products' >= page_products]_vars

C28_Witness ==
    /\ pg_pc = "seek"
    /\ last_growth >= 2
    /\ page_products >= 2
    /\ no_change_count = 2
    /\ load_attempts = last_growth + 3

\* C29: the chunks submitted by one call partition the deduplicated valid
\* records: no chunk holds more than chunk_size (100) records, and once the
\* call has returned every (source, product_url) of a valid product of the
\* batch is in exactly one record of exactly one chunk.
C29_ChunksPartitionValidRecords ==
    /\ \A k \in 1..Len(posted) : Len(posted[k]) <= chunk_size
    /\ up_pc = "returned" =>
          \A j \in 1..Len(products) :
              Valid(products[j]) =>
                  Cardinality({ki \in {<<k, i>> : k \in 1..Len(posted),
                                                 i \in 1..(chunk_size)} :
                                 /\ ki[2] <= Len(posted[ki[1]])
                                 /\ SameKey(products[j],
                                            posted[ki[1]][ki[2]])}) = 1

HasWomenTerm(text) ==
    /\ text # None
    /\ AnyIn(WomenTerms \cup {T_women \o T_only}, Lower(text.chars))

\* C30: when no earlier stage matched and the product's own title or
\* description contains a women's term ("women's", "woman's", "female",
\* "women only") and neither contains "unisex", the call returns 'women',
\* never 'men'.
C30_WomenTermIsWomen ==
    (/\ gd_pc = "returned" /\ NoException /\ NoEarlierMatch
     /\ HasWomenTerm(gd_signals.title) \/ HasWomenTerm(gd_signals.description)
     /\ ~HasUnisex(gd_signals.title) /\ ~HasUnisex(gd_signals.description))
        => gd_result = "women"

(***************************************************************************)
(* Properties of the pagination loop                                       *)
(***************************************************************************)
\* C3: an attempt whose affordance is disabled or has an empty data-next-url
\* is the last attempt of the run.
C3_SignalEndsRun ==
    [][(pg_pc = "extract" /\ att.signal) => pg_pc' = "returned"]_vars

\* C4: a run on which an affordance was found ends within max_no_change
\* attempts of the last growth of the count, and not through the
\* no-button exit.
C4_ConvergedNotExhausted ==
    (pg_pc = "returned" /\ ever_found) =>
        /\ exit_reason # "no_button"
        /\ load_attempts <= last_growth + max_no_change

C6_LoopEnds ==
    /\ [](load_attempts <= max_load_attempts)
    /\ [][load_attempts' # load_attempts =>
            /\ load_attempts < max_load_attempts
            /\ page_products < max_products]_vars
    /\ <>(pg_pc \in {"returned", "raised"})

C6_Witness ==
    /\ pg_pc = "returned"
    /\ exit_reason = "while"
    /\ load_attempts = max_load_attempts
    /\ page_products = MaxContainers

\* C7: an attempt in which a click was tried has its extraction pass, also
\* when it is the last attempt of the run.
C7_ExtractionFollowsTrigger ==
    (pg_pc = "returned" /\ att.triggered) => att.extracted

\* C8: a settle wait that times out leaves the click counted as the
\* attempt's click: button_clicked is set, no other button is clicked in the
\* attempt, the extraction pass follows, clicks never outnumber attempts.
C8_TimeoutIsNotFailure ==
    /\ successful_clicks <= load_attempts
    /\ att.timeout =>
          /\ pg_pc \in {"extract", "returned"} => button_clicked
          /\ ~att.retriggered
          /\ pg_pc = "returned" => att.extracted

====
